---------------------------- MODULE Spec2Model ----------------------------
(***************************************************************************)
(* State-machine model of RPiStepMotor.py (class StepMotor, 28BYJ-48       *)
(* driver).                                                                *)
(*                                                                         *)
(* Execution units are the caller threads (which run the public methods    *)
(* and, with nofork=True, _fullCycle itself) and the background threads    *)
(* created by rotate().  Every unit advances one source-level step at a    *)
(* time; steps of different units interleave freely.                       *)
(*                                                                         *)
(* Quantities:                                                             *)
(*   - time is counted in units of 10 microseconds, so that                *)
(*     minimalStepDelay = 0.00195 s is the integer 195; delays are exact   *)
(*     rationals compared by cross-multiplication (the code uses floats;   *)
(*     the durations drawn here are not on the rounding boundary);         *)
(*   - the samples of a velocity function are taken at half-integers       *)
(*     (i + 0.5*transition); they are kept multiplied by 2, which leaves   *)
(*     every quotient value / oneStepValue unchanged;                      *)
(*   - round() is Python 3's (round half to even), as the test's shebang   *)
(*     selects.                                                            *)
(*                                                                         *)
(* RPi.GPIO is modelled by what the calls made here do: setup() needs a    *)
(* numbering mode (RuntimeError otherwise) and a valid channel             *)
(* (ValueError), output() needs a channel set up as output (RuntimeError), *)
(* cleanup(channels) returns the channels to inputs, in order, and raises  *)
(* ValueError at a channel the board does not have.                        *)
(***************************************************************************)
EXTENDS Integers, Sequences, FiniteSets, TLC

(* ------------------------------ bounds -------------------------------- *)

\* caller threads
NumCallers == 2

\* StepMotor objects created in one behaviour
MaxMotors == 2

\* threading.Thread objects alive at a time
MaxThreads == 2

\* background rotations in flight at a time in a single-threaded program
MaxInFlight == 1

\* GPIO channels 1..MaxChannel exist on the board; MaxChannel + 1 does not
MaxChannel == 8

(* ------------------------- program constants -------------------------- *)

\* RPiStepMotor.py: phases = 4
phases == 4

\* RPiStepMotor.py: minimalStepDelay = 0.00195 (seconds), in 10 us units
minimalStepDelay == 195

Callers == 1..NumCallers
MotorIds == 1..MaxMotors
ThreadIds == 1..MaxThreads
ValidChannels == 1..MaxChannel

(* ------------------------------ inputs -------------------------------- *)

\* pin sequences handed to the constructor: two disjoint ones, one with a
\* repeated identifier (it overlaps the first), one of length 3 and one with
\* a channel the board does not have (it overlaps the second)
PinChoices ==
  { <<1, 2, 3, 4>>, <<5, 6, 7, 8>>, <<1, 1, 2, 3>>, <<1, 2, 3>>,
    <<6, 7, 8, MaxChannel + 1>> }

\* fullRotation values (the default is 512; a small one keeps passes short)
FullRotations == {4}

\* angles in degrees (radians=False): 2, 0 and 2 steps at fullRotation 4
Angles == {-180, 0, 180}

\* timeForRevolution in 10 us units: 10 ms (too short for 2 steps) and 20 s
Durations == {1000, 2000000}

NoFunction == [f |-> "none", start |-> 0, end |-> 0]

\* the 'function' argument: None, or (func, start, end)
Functions == { NoFunction, [f |-> "id", start |-> 0, end |-> 2] }

(* ------------------------------ helpers ------------------------------- *)

Range(s) == {s[i] : i \in 1..Len(s)}

Abs(x) == IF x < 0 THEN -x ELSE x

RECURSIVE SumSeq(_)
SumSeq(s) ==
  IF Len(s) = 0 THEN 0
  ELSE IF Len(s) = 1 THEN s[1]
  ELSE LET half == Len(s) \div 2
       IN SumSeq(SubSeq(s, 1, half)) + SumSeq(SubSeq(s, half + 1, Len(s)))

\* the first entry taken for the largest
MaxSeqFirst(s) == s[1]

\* max(s) of a sequence that is not empty
RECURSIVE MaxSeq(_)
MaxSeq(s) ==
  IF Len(s) = 1 THEN s[1]
  ELSE LET half == Len(s) \div 2
           a == MaxSeq(SubSeq(s, 1, half))
           b == MaxSeq(SubSeq(s, half + 1, Len(s)))
       IN IF a >= b THEN a ELSE b

\* self._pins[::-1]
Reversed(s) == [i \in 1..Len(s) |-> s[Len(s) + 1 - i]]

\* floor of num/den for den > 0 (\div rounds towards minus infinity)
FloorDiv(num, den) == num \div den

\* Python 3 round(num/den) for den > 0: nearest integer, ties to even
PyRound(num, den) ==
  LET q == FloorDiv(2 * num + den, 2 * den)
      tie == (2 * num + den) % (2 * den) = 0
  IN IF tie /\ q % 2 = 1 THEN q - 1 ELSE q

(* ------------------- _fullCycle: the profile compiler ----------------- *)

\* twice func(x) for x = x2 / 2: lambda x: x, lambda x: 0, or lambda x: 1
Func2(f, x2) == IF f = "id" THEN x2 ELSE IF f = "zero" THEN 0 ELSE 2

\* len(iterable) for iterable = range(start, end, transition)
Windows(fn) == Abs(fn.end - fn.start)

\* values = [func(i + 0.5 * transition) for i in iterable], each doubled
Values2(fn) ==
  LET transition == IF fn.start > fn.end THEN -1 ELSE 1
  IN [j \in 1..Windows(fn) |->
        Func2(fn.f, 2 * (fn.start + (j - 1) * transition) + transition)]

\* lines 171-173 left out
ExtraPulseNever(remNum, V) == FALSE

\* line 171: round(remainder) >= 1, for the remainder remNum / V
ExtraPulse(remNum, V) == PyRound(remNum, V) >= 1

\* line 173: remainder -= 1 when the extra pulse was given
Carry(remNum, V, extra) == IF extra THEN remNum - V ELSE remNum

\* the loop 'for value in values' with oneStepValue = V / steps, entered
\* with the remainder remNum / V: the pulse counts appended and the remainder
\* left; a stretch of several values is run as its two halves in turn
RECURSIVE CyclesLoop(_, _, _, _)
CyclesLoop(values, steps, V, remNum) ==
  IF Len(values) = 0 THEN [cycles |-> <<>>, remNum |-> remNum]
  ELSE IF Len(values) = 1
  THEN LET value == values[1]
           integer == FloorDiv(value * steps, V)
           remainder == remNum + (value * steps - integer * V)
           extra == ExtraPulse(remainder, V)
       IN [cycles |-> <<IF extra THEN integer + 1 ELSE integer>>,
           remNum |-> Carry(remainder, V, extra)]
  ELSE LET half == Len(values) \div 2
           first == CyclesLoop(SubSeq(values, 1, half), steps, V, remNum)
           rest == CyclesLoop(SubSeq(values, half + 1, Len(values)), steps,
                              V, first.remNum)
       IN [cycles |-> first.cycles \o rest.cycles, remNum |-> rest.remNum]

\* the list 'cycles' of lines 167-174
CyclesFrom(values, steps, V, remNum) ==
  CyclesLoop(values, steps, V, remNum).cycles

\* the delay timeForRevolution / N / k / phases is below minimalStepDelay
DelayBelowFloor(T, N, k) == T < minimalStepDelay * N * k * phases

\* the check of stepDelay left out
TooSmallNever(T, N, count) == FALSE

\* the raise of 'step delay is too small', on the delay computed from count
TooSmall(T, N, count) == DelayBelowFloor(T, N, count)

\* every request taken for one window of 'steps' pulses, with no division
CompileEmpty(steps, T, fn) == [err |-> "none", cycles |-> <<steps>>]

\* _fullCycle up to and including the check of stepDelay: the error raised
\* (or "none") and the list of pulse counts per time period
Compile(steps, T, fn) ==
  IF fn.f = "none"
  THEN IF steps = 0 THEN [err |-> "ZeroDivisionError", cycles |-> <<>>]
       ELSE [err |-> IF TooSmall(T, 1, steps) THEN "ValueError" ELSE "none",
             cycles |-> <<steps>>]
  ELSE LET values == Values2(fn)
           V == SumSeq(values)
       IN IF steps = 0 \/ Windows(fn) = 0 \/ V = 0
          THEN [err |-> "ZeroDivisionError", cycles |-> <<>>]
          ELSE LET cycles == CyclesFrom(values, steps, V, 0)
               IN IF MaxSeq(cycles) = 0
                  THEN [err |-> "ZeroDivisionError", cycles |-> cycles]
                  ELSE [err |-> IF TooSmall(T, Len(cycles), MaxSeq(cycles))
                                THEN "ValueError" ELSE "none",
                        cycles |-> cycles]

\* the step count rounded up instead of truncated
StepsOfUp(angle, fullRotation) == (Abs(angle) * fullRotation + 359) \div 360

\* steps = int(angle / 360 * self._fullRotation), angle already abs()
StepsOf(angle, fullRotation) == (Abs(angle) * fullRotation) \div 360

\* the sign of the angle ignored
DirectionPinsForward(pins, angle) == pins

\* pins = self._pins[::-1] if angle < 0 else self._pins
DirectionPins(pins, angle) == IF angle < 0 THEN Reversed(pins) ELSE pins

(* ------------------------------- state -------------------------------- *)

VARIABLES
  allMotors,   \* module global: the set of registered StepMotor objects
  allPins,     \* module global: the set of claimed pins
  motor,       \* the StepMotor objects and their attributes
  thr,         \* the Thread objects started by rotate(), with their pass
  inl,         \* per caller: the pass it runs inline (nofork=True)
  pc,          \* per caller: where it is inside the method it called
  call,        \* per caller: the arguments, locals and outcome of that method
  gpioMode,    \* RPi.GPIO: the numbering mode
  gpioOut,     \* RPi.GPIO: the channels set up as outputs
  gpioHigh     \* RPi.GPIO: the output channels currently high

vars ==
  <<allMotors, allPins, motor, thr, inl, pc, call, gpioMode, gpioOut,
    gpioHigh>>

NoMotor ==
  [alloc |-> FALSE, ref |-> FALSE, attrs |-> FALSE, hasThread |-> FALSE,
   pins |-> <<>>, fullRotation |-> 0, thread |-> 0]

NoPass ==
  [st |-> "free", m |-> 0, pins |-> <<>>, steps |-> 0, T |-> 0,
   fn |-> NoFunction, cycles |-> <<>>, seg |-> 0, rep |-> 0, k |-> 0,
   high |-> FALSE, writes |-> 0, emitted |-> 0, err |-> "none"]

NoCall ==
  [op |-> "none", m |-> 0, pins |-> <<>>, fr |-> 0, angle |-> 0, T |-> 0,
   fn |-> NoFunction, nofork |-> FALSE, targets |-> {}, h |-> 0,
   val |-> "none"]

\* the module has just been imported
Init ==
  /\ allMotors = {}
  /\ allPins = {}
  /\ motor = [m \in MotorIds |-> NoMotor]
  /\ thr = [t \in ThreadIds |-> NoPass]
  /\ inl = [c \in Callers |-> NoPass]
  /\ pc = [c \in Callers |-> "idle"]
  /\ call = [c \in Callers |-> NoCall]
  /\ gpioMode = "unset"
  /\ gpioOut = {}
  /\ gpioHigh = {}

\* caller c is free to make a call
Idle(c) == pc[c] = "idle"

\* threading.Thread.is_alive(); handle 0 is a Thread that is not alive: the
\* Thread() made by __init__, which is never started, or one that has ended
IsAlive(h) == h # 0 /\ thr[h].st # "free"

\* a caller's method returns or raises: val is "ok", the value returned or
\* the exception; the arguments stay readable until the caller has taken it
Return(c, locals, val) ==
  /\ pc' = [pc EXCEPT ![c] = "ret"]
  /\ call' = [call EXCEPT ![c] = [locals EXCEPT !.val = val]]

\* a caller moves on inside its method
Goto(c, label, locals) ==
  /\ pc' = [pc EXCEPT ![c] = label]
  /\ call' = [call EXCEPT ![c] = locals]

\* the caller has taken the outcome of its call and is free again
Ack(c) ==
  /\ pc[c] = "ret"
  /\ pc' = [pc EXCEPT ![c] = "idle"]
  /\ call' = [call EXCEPT ![c] = NoCall]
  /\ inl' = [inl EXCEPT ![c] = NoPass]
  /\ UNCHANGED <<allMotors, allPins, motor, thr, gpioMode, gpioOut, gpioHigh>>

(* ------------------------ StepMotor.__init__ -------------------------- *)

\* len(pins) != phases
WrongLength(pins) == Len(pins) # phases

\* the check of line 59 left out
PinsInUseNever(pins, claimed) == FALSE

\* [pin for pin in pins if pin in allPins] is not empty
PinsInUse(pins, claimed) == Range(pins) \cap claimed # {}

\* the lowest object identity not yet used
FreshMotor == CHOOSE m \in MotorIds : ~motor[m].alloc /\ \A n \in 1..(m - 1) : motor[n].alloc

\* the checks made after the pins were claimed
InitRejectedAfterClaim(c, locals, val) ==
  /\ Return(c, locals, val)
  /\ allPins' = allPins \cup Range(locals.pins)
  /\ UNCHANGED <<allMotors, motor>>

\* a raise out of the two checks at the top of __init__
InitRejected(c, locals, val) ==
  /\ Return(c, locals, val)
  /\ UNCHANGED <<allMotors, allPins, motor>>

\* lines 57-60: the two checks; an accepted object goes on to register
InitCheck(c, pins, fr) ==
  /\ Idle(c)
  /\ LET locals == [NoCall EXCEPT !.op = "init", !.pins = pins, !.fr = fr]
     IN IF WrongLength(pins) THEN InitRejected(c, locals, "ValueError_pins")
        ELSE IF PinsInUse(pins, allPins)
        THEN InitRejected(c, locals, "ValueError_in_use")
        ELSE /\ \E m \in MotorIds : ~motor[m].alloc
             /\ motor' = [motor EXCEPT ![FreshMotor].alloc = TRUE]
             /\ Goto(c, "init_add", [locals EXCEPT !.m = FreshMotor])
             /\ UNCHANGED <<allMotors, allPins>>
  /\ UNCHANGED <<thr, inl, gpioMode, gpioOut, gpioHigh>>

\* line 62: allMotors.add(self)
InitAdd(c) ==
  /\ pc[c] = "init_add"
  /\ allMotors' = allMotors \cup {call[c].m}
  /\ Goto(c, "init_update", call[c])
  /\ UNCHANGED <<allPins, motor, thr, inl, gpioMode, gpioOut, gpioHigh>>

\* line 63: allPins.update(pins)
InitUpdate(c) ==
  /\ pc[c] = "init_update"
  /\ allPins' = allPins \cup Range(call[c].pins)
  /\ Goto(c, "init_attrs", call[c])
  /\ UNCHANGED <<allMotors, motor, thr, inl, gpioMode, gpioOut, gpioHigh>>

\* lines 64-66: self._fullRotation, self._pins, self._thread
InitAttrs(c) ==
  /\ pc[c] = "init_attrs"
  /\ motor' = [motor EXCEPT ![call[c].m] =
                 [@ EXCEPT !.attrs = TRUE, !.hasThread = TRUE,
                           !.pins = call[c].pins, !.fullRotation = call[c].fr,
                           !.thread = 0]]
  /\ Goto(c, "init_setup", call[c])
  /\ UNCHANGED <<allMotors, allPins, thr, inl, gpioMode, gpioOut, gpioHigh>>

\* GPIO.setup(channels, GPIO.OUT, initial=False) once a mode is set: the
\* channels are set up in order, up to the first one the board does not have
SetupDone(pins) ==
  LET bad == {i \in 1..Len(pins) : pins[i] \notin ValidChannels}
  IN {pins[i] : i \in {j \in 1..Len(pins) : \A b \in bad : j < b}}

\* GPIO.defaultMode = GPIO.BCM
defaultMode == "BCM"

\* the numbering modes of RPi.GPIO
Modes == {"BCM", "BOARD"}

\* the fallback of lines 69-71 left out
FallbackModeNone(mode) == mode

\* lines 68-71: the mode after the constructor's GPIO.setup calls; only with
\* no mode set does the first call raise RuntimeError and setmode() run
FallbackMode(mode) == IF mode = "unset" THEN defaultMode ELSE mode

\* lines 67-72: GPIO.setup, with the fallback to the default mode when the
\* first call raises RuntimeError because no mode is set
InitSetup(c) ==
  /\ pc[c] = "init_setup"
  /\ LET pins == call[c].pins
         m == call[c].m
         failed == Range(pins) \ ValidChannels # {}
     IN /\ gpioMode' = FallbackMode(gpioMode)
        /\ gpioOut' = gpioOut \cup SetupDone(pins)
        /\ gpioHigh' = gpioHigh \ SetupDone(pins)
        /\ motor' = [motor EXCEPT ![m].ref = ~failed]
        /\ Return(c, call[c],
                  IF failed THEN "ValueError_channel"
                  ELSE IF gpioMode = "unset" THEN "ok_warned" ELSE "ok")
  /\ UNCHANGED <<allMotors, allPins, thr, inl>>

\* StepMotor.setmode(mode): GPIO.setmode(mode), which raises ValueError when
\* a different mode has already been set
SetMode(c, mode) ==
  /\ Idle(c)
  /\ LET differs == gpioMode # "unset" /\ gpioMode # mode
     IN /\ gpioMode' = IF differs THEN gpioMode ELSE mode
        /\ Return(c, [NoCall EXCEPT !.op = "setmode"],
                  IF differs THEN "ValueError_mode" ELSE "ok")
  /\ UNCHANGED <<allMotors, allPins, motor, thr, inl, gpioOut, gpioHigh>>

(* ---------------------- _fullCycle: the executor ---------------------- *)

\* a pass that has been handed its arguments and has not run a line yet
StartPass(m, pins, steps, T, fn) ==
  [NoPass EXCEPT !.st = "start", !.m = m, !.pins = pins, !.steps = steps,
                 !.T = T, !.fn = fn]

\* lines 157-179: compile, then raise or enter the loops
Compiled(p) ==
  LET r == Compile(p.steps, p.T, p.fn)
  IN IF r.err # "none"
     THEN [p EXCEPT !.st = "err", !.err = r.err, !.cycles = r.cycles]
     ELSE [p EXCEPT !.st = "run", !.cycles = r.cycles, !.seg = 1, !.rep = 0,
                    !.k = 1]

\* the loop over the time periods moves to the next one, or ends
NextWindow(p) ==
  IF p.seg = Len(p.cycles)
  THEN [p EXCEPT !.st = "done", !.seg = 0, !.rep = 0, !.k = 0]
  ELSE [p EXCEPT !.seg = @ + 1, !.rep = 0, !.k = 1]

\* after GPIO.output(pin, False): next pin, next repetition or next period
AfterLow(p) ==
  IF p.k < Len(p.pins) THEN [p EXCEPT !.k = @ + 1]
  ELSE LET q == [p EXCEPT !.emitted = @ + 1, !.rep = @ + 1, !.k = 1]
       IN IF q.rep = q.cycles[q.seg] THEN NextWindow(q) ELSE q

\* one step of the loops of lines 181-197 by a pass in state "run":
\* time.sleep(timePeriod) of an empty period, GPIO.output(pin, True), or
\* time.sleep(stepDelay) followed by GPIO.output(pin, False); GPIO.output
\* raises RuntimeError on a channel that is not set up as an output
Pulsed(p, out, highs) ==
  IF p.cycles[p.seg] = 0 THEN [p |-> NextWindow(p), highs |-> highs]
  ELSE LET pin == p.pins[p.k]
       IN IF pin \notin out
          THEN [p |-> [p EXCEPT !.st = "err", !.err = "RuntimeError"],
                highs |-> highs]
          ELSE IF ~p.high
          THEN [p |-> [p EXCEPT !.high = TRUE, !.writes = @ + 1],
                highs |-> highs \cup {pin}]
          ELSE [p |-> AfterLow([p EXCEPT !.high = FALSE, !.writes = @ + 1]),
                highs |-> highs \ {pin}]

\* a background thread runs _fullCycle up to the loops
ThreadCompile(t) ==
  /\ thr[t].st = "start"
  /\ thr' = [thr EXCEPT ![t] = Compiled(thr[t])]
  /\ UNCHANGED <<allMotors, allPins, motor, inl, pc, call, gpioMode, gpioOut,
                 gpioHigh>>

\* a background thread runs one step of the loops
ThreadPulse(t) ==
  /\ thr[t].st = "run"
  /\ LET r == Pulsed(thr[t], gpioOut, gpioHigh)
     IN /\ thr' = [thr EXCEPT ![t] = r.p]
        /\ gpioHigh' = r.highs
  /\ UNCHANGED <<allMotors, allPins, motor, inl, pc, call, gpioMode, gpioOut>>

\* a handle to thread t, once t has ended
Ended(h, t) == IF h = t THEN 0 ELSE h

\* _fullCycle has returned or raised in a background thread: the thread
\* ends, is_alive() turns False and nothing is handed to any caller
ThreadExit(t) ==
  /\ thr[t].st \in {"done", "err"}
  /\ thr' = [thr EXCEPT ![t] = NoPass]
  /\ motor' = [m \in MotorIds |->
                 [motor[m] EXCEPT !.thread = Ended(@, t)]]
  /\ call' = [c \in Callers |-> [call[c] EXCEPT !.h = Ended(@, t)]]
  /\ UNCHANGED <<allMotors, allPins, inl, pc, gpioMode, gpioOut, gpioHigh>>

\* what rotate(nofork=True) hands back to its caller once the pass is over
InlineOutcome(c, p) ==
  IF p.st = "run" THEN Goto(c, "inline", call[c])
  ELSE Return(c, call[c], IF p.st = "done" THEN "ok" ELSE p.err)

\* the caller runs _fullCycle itself up to the loops
InlineCompile(c) ==
  /\ pc[c] = "inline"
  /\ inl[c].st = "start"
  /\ inl' = [inl EXCEPT ![c] = Compiled(inl[c])]
  /\ InlineOutcome(c, inl'[c])
  /\ UNCHANGED <<allMotors, allPins, motor, thr, gpioMode, gpioOut, gpioHigh>>

\* the caller runs one step of the loops
InlinePulse(c) ==
  /\ pc[c] = "inline"
  /\ inl[c].st = "run"
  /\ LET r == Pulsed(inl[c], gpioOut, gpioHigh)
     IN /\ inl' = [inl EXCEPT ![c] = r.p]
        /\ gpioHigh' = r.highs
  /\ InlineOutcome(c, inl'[c])
  /\ UNCHANGED <<allMotors, allPins, motor, thr, gpioMode, gpioOut>>

(* -------------------- isRunning, isStopped, finish --------------------- *)

\* StepMotor.isRunning(): self._thread.is_alive()
IsRunning(m) == IsAlive(motor[m].thread)

\* StepMotor.isStopped(): not self._thread.is_alive()
IsStopped(m) == ~IsAlive(motor[m].thread)

\* isRunning() as a call: AttributeError once _thread is deleted
IsRunningCall(c, m) ==
  /\ Idle(c)
  /\ motor[m].ref
  /\ Return(c, [NoCall EXCEPT !.op = "isRunning", !.m = m],
            IF ~motor[m].hasThread THEN "AttributeError"
            ELSE IF IsRunning(m) THEN "True" ELSE "False")
  /\ UNCHANGED <<allMotors, allPins, motor, thr, inl, gpioMode, gpioOut,
                 gpioHigh>>

\* isStopped() as a call
IsStoppedCall(c, m) ==
  /\ Idle(c)
  /\ motor[m].ref
  /\ Return(c, [NoCall EXCEPT !.op = "isStopped", !.m = m],
            IF ~motor[m].hasThread THEN "AttributeError"
            ELSE IF IsStopped(m) THEN "True" ELSE "False")
  /\ UNCHANGED <<allMotors, allPins, motor, thr, inl, gpioMode, gpioOut,
                 gpioHigh>>

\* finish(): if self.isRunning(): self._thread.join()
FinishCheck(c, m) ==
  /\ Idle(c)
  /\ motor[m].ref
  /\ LET locals == [NoCall EXCEPT !.op = "finish", !.m = m]
     IN IF ~motor[m].hasThread THEN Return(c, locals, "AttributeError")
        ELSE IF IsRunning(m)
        THEN Goto(c, "fin_join", [locals EXCEPT !.h = motor[m].thread])
        ELSE Return(c, locals, "ok")
  /\ UNCHANGED <<allMotors, allPins, motor, thr, inl, gpioMode, gpioOut,
                 gpioHigh>>

\* Thread.join() returns once the thread has ended
FinishJoin(c) ==
  /\ pc[c] = "fin_join"
  /\ ~IsAlive(call[c].h)
  /\ Return(c, call[c], "ok")
  /\ UNCHANGED <<allMotors, allPins, motor, thr, inl, gpioMode, gpioOut,
                 gpioHigh>>

(* ------------------------------- rotate -------------------------------- *)

\* Thread objects that can be created, and the background rotations in
\* flight: the threads alive and the accepted calls about to start one
FreeThreads == {t \in ThreadIds : thr[t].st = "free"}
FreshThread == CHOOSE t \in FreeThreads : \A u \in FreeThreads : t <= u
PendingForks == {c \in Callers : pc[c] = "rot_go" /\ ~call[c].nofork}
InFlight == Cardinality(ThreadIds \ FreeThreads) + Cardinality(PendingForks)

\* the check of line 121 left out
RefusedNever(m) == FALSE

\* the guard of line 121: rotate() refuses to start
Refused(m) == IsRunning(m)

\* lines 121-122: if self.isRunning(): raise RuntimeError; limit bounds the
\* background rotations in flight
RotateCheck(c, m, angle, T, fn, nofork, limit) ==
  /\ Idle(c)
  /\ motor[m].ref
  /\ LET self == [NoCall EXCEPT !.op = "rotate", !.m = m]
         locals == [self EXCEPT !.angle = angle, !.T = T, !.fn = fn,
                                !.nofork = nofork]
     IN IF ~motor[m].hasThread THEN Return(c, self, "AttributeError")
        ELSE IF Refused(m) THEN Return(c, self, "RuntimeError_running")
        ELSE /\ nofork \/ InFlight < limit
             /\ Goto(c, "rot_go", locals)
  /\ UNCHANGED <<allMotors, allPins, motor, thr, inl, gpioMode, gpioOut,
                 gpioHigh>>

\* lines 123-130: direction and step count, then _fullCycle inline or on a
\* new thread that replaces self._thread and is started
RotateGo(c) ==
  /\ pc[c] = "rot_go"
  /\ LET m == call[c].m
         pins == DirectionPins(motor[m].pins, call[c].angle)
         steps == StepsOf(call[c].angle, motor[m].fullRotation)
         pass == StartPass(m, pins, steps, call[c].T, call[c].fn)
     IN IF ~motor[m].attrs
        THEN /\ Return(c, call[c], "AttributeError")
             /\ UNCHANGED <<motor, thr, inl>>
        ELSE IF call[c].nofork
        THEN /\ inl' = [inl EXCEPT ![c] = pass]
             /\ Goto(c, "inline", call[c])
             /\ UNCHANGED <<motor, thr>>
        ELSE /\ thr' = [thr EXCEPT ![FreshThread] = pass]
             /\ motor' = [motor EXCEPT ![m].thread = FreshThread,
                                       ![m].hasThread = TRUE]
             /\ Return(c, call[c], "ok")
             /\ UNCHANGED inl
  /\ UNCHANGED <<allMotors, allPins, gpioMode, gpioOut, gpioHigh>>

(* ------------------------- cleanup and _delete ------------------------- *)

\* lines 93-94: list(iterable) is taken; iterable is allMotors for
\* cleanup(), the collection or the one motor otherwise
CleanupBegin(c, targets) ==
  /\ Idle(c)
  /\ Goto(c, "cl_next", [NoCall EXCEPT !.op = "cleanup", !.targets = targets])
  /\ UNCHANGED <<allMotors, allPins, motor, thr, inl, gpioMode, gpioOut,
                 gpioHigh>>

\* cleanup() with self=None
CleanupAll(c) == CleanupBegin(c, allMotors)

\* cleanup(motor), or cleanup of a tuple, list or set of motors
CleanupSome(c, targets) == CleanupBegin(c, targets)

\* __exit__(): self.cleanup()
Exit(c, m) ==
  /\ motor[m].ref
  /\ CleanupBegin(c, {m})

\* __enter__(): return self
Enter(c, m) ==
  /\ Idle(c)
  /\ motor[m].ref
  /\ Return(c, [NoCall EXCEPT !.op = "enter", !.m = m], "ok")
  /\ UNCHANGED <<allMotors, allPins, motor, thr, inl, gpioMode, gpioOut,
                 gpioHigh>>

\* the wait of lines 143-144 left out
NoWaitAlways(m) == TRUE

\* lines 143-144: _delete() goes on to free the pins at once
NoWait(m) == ~IsRunning(m)

\* lines 94-95 and 143-144: the next motor of the list, and the start of its
\* _delete(): if self.isRunning(): self.finish()
CleanupNext(c) ==
  /\ pc[c] = "cl_next"
  /\ IF call[c].targets = {} THEN Return(c, call[c], "ok")
     ELSE \E m \in call[c].targets :
            LET rest == [call[c] EXCEPT !.m = m, !.targets = @ \ {m}]
            IN IF ~motor[m].hasThread THEN Return(c, rest, "AttributeError")
               ELSE IF NoWait(m) THEN Goto(c, "del_gpio", rest)
               ELSE Goto(c, "del_join", [rest EXCEPT !.h = motor[m].thread])
  /\ UNCHANGED <<allMotors, allPins, motor, thr, inl, gpioMode, gpioOut,
                 gpioHigh>>

\* finish() inside _delete(): join returns once the thread has ended
DeleteJoin(c) ==
  /\ pc[c] = "del_join"
  /\ ~IsAlive(call[c].h)
  /\ Goto(c, "del_gpio", [call[c] EXCEPT !.h = 0])
  /\ UNCHANGED <<allMotors, allPins, motor, thr, inl, gpioMode, gpioOut,
                 gpioHigh>>

\* GPIO.cleanup(channels): the channels are returned to inputs in order,
\* up to the first one the board does not have, where ValueError is raised
CleanupDone(pins) == SetupDone(pins)

\* line 145: GPIO.cleanup(self._pins)
DeleteGpio(c) ==
  /\ pc[c] = "del_gpio"
  /\ LET m == call[c].m
     IN IF ~motor[m].attrs
        THEN /\ Return(c, call[c], "AttributeError")
             /\ UNCHANGED <<gpioOut, gpioHigh>>
        ELSE /\ gpioOut' = gpioOut \ CleanupDone(motor[m].pins)
             /\ gpioHigh' = gpioHigh \ CleanupDone(motor[m].pins)
             /\ IF Range(motor[m].pins) \subseteq ValidChannels
                THEN Goto(c, "del_remove", call[c])
                ELSE Return(c, call[c], "ValueError_channel")
  /\ UNCHANGED <<allMotors, allPins, motor, thr, inl, gpioMode>>

\* line 146: allMotors.remove(self)
DeleteRemove(c) ==
  /\ pc[c] = "del_remove"
  /\ LET m == call[c].m
     IN IF m \notin allMotors
        THEN /\ Return(c, call[c], "KeyError")
             /\ UNCHANGED allMotors
        ELSE /\ allMotors' = allMotors \ {m}
             /\ Goto(c, "del_pins", call[c])
  /\ UNCHANGED <<allPins, motor, thr, inl, gpioMode, gpioOut, gpioHigh>>

\* the pins line 147 takes out of allPins
Released(pins) == Range(pins)

\* line 147: allPins.difference_update(self._pins)
DeletePins(c) ==
  /\ pc[c] = "del_pins"
  /\ LET m == call[c].m
     IN IF ~motor[m].attrs
        THEN /\ Return(c, call[c], "AttributeError")
             /\ UNCHANGED allPins
        ELSE /\ allPins' = allPins \ Released(motor[m].pins)
             /\ Goto(c, "del_attrs", call[c])
  /\ UNCHANGED <<allMotors, motor, thr, inl, gpioMode, gpioOut, gpioHigh>>

\* 'del self._thread' left out of line 150
DeletedKeepsThread(obj) ==
  [NoMotor EXCEPT !.alloc = TRUE, !.ref = obj.ref, !.hasThread = TRUE,
                  !.thread = obj.thread]

\* the object once its three attributes are deleted
Deleted(obj) == [NoMotor EXCEPT !.alloc = TRUE, !.ref = obj.ref]

\* lines 148-150: del self._fullRotation, self._pins, self._thread
DeleteAttrs(c) ==
  /\ pc[c] = "del_attrs"
  /\ LET m == call[c].m
     IN /\ motor' = [motor EXCEPT ![m] = Deleted(motor[m])]
        /\ IF ~motor[m].attrs \/ ~motor[m].hasThread
           THEN Return(c, call[c], "AttributeError")
           ELSE Goto(c, "cl_next", [call[c] EXCEPT !.m = 0])
  /\ UNCHANGED <<allMotors, allPins, thr, inl, gpioMode, gpioOut, gpioHigh>>

(* ------------------------------ behaviour ------------------------------ *)

\* the motors a caller holds a reference to
Refs == {m \in MotorIds : motor[m].ref}

\* a step of caller thread c
CallerNext(c, limit) ==
  \/ \E pins \in PinChoices, fr \in FullRotations : InitCheck(c, pins, fr)
  \/ InitAdd(c)
  \/ InitUpdate(c)
  \/ InitAttrs(c)
  \/ InitSetup(c)
  \/ \E mode \in Modes : SetMode(c, mode)
  \/ \E m \in MotorIds : Enter(c, m)
  \/ \E m \in MotorIds : Exit(c, m)
  \/ \E m \in MotorIds : IsRunningCall(c, m)
  \/ \E m \in MotorIds : IsStoppedCall(c, m)
  \/ \E m \in MotorIds : FinishCheck(c, m)
  \/ FinishJoin(c)
  \/ \E m \in MotorIds, angle \in Angles, T \in Durations, fn \in Functions,
        nofork \in BOOLEAN :
       RotateCheck(c, m, angle, T, fn, nofork, limit)
  \/ RotateGo(c)
  \/ InlineCompile(c)
  \/ InlinePulse(c)
  \/ CleanupAll(c)
  \/ \E targets \in SUBSET Refs \ {{}} : CleanupSome(c, targets)
  \/ CleanupNext(c)
  \/ DeleteJoin(c)
  \/ DeleteGpio(c)
  \/ DeleteRemove(c)
  \/ DeletePins(c)
  \/ DeleteAttrs(c)
  \/ Ack(c)

\* a step of a background thread
ThreadNext ==
  \/ \E t \in ThreadIds : ThreadCompile(t)
  \/ \E t \in ThreadIds : ThreadPulse(t)
  \/ \E t \in ThreadIds : ThreadExit(t)

\* a single-threaded program: its calls are made one at a time, and its
\* background rotations run alongside
Next == CallerNext(1, MaxInFlight) \/ ThreadNext

Spec == Init /\ [][Next]_vars

\* two caller threads that construct motors whenever they like
ConstructNext(c) ==
  \/ \E pins \in PinChoices, fr \in FullRotations : InitCheck(c, pins, fr)
  \/ InitAdd(c)
  \/ InitUpdate(c)
  \/ InitAttrs(c)
  \/ InitSetup(c)
  \/ Ack(c)

NextConstruct == \E c \in Callers : ConstructNext(c)

SpecConstruct == Init /\ [][NextConstruct]_vars

\* a caller thread that rotates the motors half a turn in a feasible time
\* and asks for their run state
RunStateNext(c) ==
  \/ \E m \in MotorIds, fn \in Functions, nofork \in BOOLEAN :
       RotateCheck(c, m, 180, 2000000, fn, nofork, MaxThreads)
  \/ RotateGo(c)
  \/ InlineCompile(c)
  \/ InlinePulse(c)
  \/ \E m \in MotorIds : IsRunningCall(c, m)
  \/ \E m \in MotorIds : IsStoppedCall(c, m)
  \/ Ack(c)

\* the first caller thread constructs a motor, and both threads use it
NextRunState ==
  \/ InitCheck(1, <<1, 2, 3, 4>>, 4)
  \/ InitAdd(1)
  \/ InitUpdate(1)
  \/ InitAttrs(1)
  \/ InitSetup(1)
  \/ \E c \in Callers : RunStateNext(c)
  \/ ThreadNext

SpecRunState == Init /\ [][NextRunState]_vars

(* ------------------------------- claims -------------------------------- *)

\* the caller that is constructing motor m, if any
Constructing(m) ==
  {c \in Callers : call[c].op = "init" /\ call[c].m = m /\ pc[c] # "ret"}

\* the pins motor m was constructed with
Claimed(m) ==
  IF motor[m].attrs THEN Range(motor[m].pins)
  ELSE UNION {Range(call[c].pins) : c \in Constructing(m)}

\* no pin belongs to two registered motors
Exclusive ==
  \A m1, m2 \in allMotors : m1 # m2 => Claimed(m1) \cap Claimed(m2) = {}

\* C1: with the constructions and cleanups made one at a time, no pin
\* belongs to two live motors, and a construction that has not been rejected
\* has no pin in common with any other live motor
C1_PinExclusivity ==
  /\ Exclusive
  /\ \A c \in Callers :
       (call[c].op = "init"
        /\ \E m \in allMotors \ {call[c].m} :
             Claimed(m) \cap Range(call[c].pins) # {})
       => (pc[c] = "ret"
           /\ call[c].val \in {"ValueError_pins", "ValueError_in_use"})

\* two motors are live and a third construction was turned down for its pins
C1_Witness ==
  /\ Cardinality(allMotors) = 2
  /\ \A m \in allMotors : motor[m].attrs
  /\ \E c \in Callers : pc[c] = "ret" /\ call[c].val = "ValueError_in_use"

\* C2: when constructions with overlapping pins interleave step by step, no
\* pin ends up owned by two live motors
C2_ConcurrentClaimsSafe ==
  \A m1, m2 \in allMotors :
    (m1 # m2 /\ motor[m1].attrs /\ motor[m2].attrs)
    => Range(motor[m1].pins) \cap Range(motor[m2].pins) = {}

\* C3: a construction turned down for the length of its pin sequence or for
\* a pin already claimed raises and leaves allMotors and allPins (and every
\* object and channel) as they were
C3_RejectionKeepsRegistries ==
  [][\A c \in Callers :
       (pc[c] = "idle" /\ call'[c].op = "init"
        /\ (Len(call'[c].pins) # 4 \/ Range(call'[c].pins) \cap allPins # {}))
       => /\ pc'[c] = "ret"
          /\ call'[c].val \in {"ValueError_pins", "ValueError_in_use"}
          /\ allMotors' = allMotors
          /\ allPins' = allPins
          /\ motor' = motor
          /\ gpioOut' = gpioOut]_vars

\* a construction was turned down while a motor holds its pins
C3_Witness ==
  \E c \in Callers :
    /\ pc[c] = "ret"
    /\ call[c].val = "ValueError_in_use"
    /\ Range(call[c].pins) \subseteq allPins
    /\ allMotors # {}

\* C4: every live motor owns 4 distinct pins
C4_DistinctPins ==
  \A m \in allMotors :
    motor[m].attrs => Cardinality(Range(motor[m].pins)) = 4

\* the passes that exist: in the background threads and inline
Passes == {thr[t] : t \in ThreadIds} \cup {inl[c] : c \in Callers}

\* a background thread is inside the pass it runs for motor m
BackgroundPass(m) ==
  \E t \in ThreadIds : thr[t].m = m /\ thr[t].st \in {"start", "run"}

\* C5: rotate() on a motor whose background pass is still in progress raises
\* 'already running', starts no pass and replaces no handle, and a pass that
\* has come to its end has emitted exactly the pulses it was compiled to
C5_RunningMotorRefuses ==
  [][/\ \A c \in Callers :
          (pc[c] = "idle" /\ call'[c].op = "rotate"
           /\ BackgroundPass(call'[c].m))
          => /\ pc'[c] = "ret"
             /\ call'[c].val = "RuntimeError_running"
             /\ thr' = thr
             /\ inl' = inl
             /\ motor' = motor
             /\ gpioHigh' = gpioHigh
     /\ \A t \in ThreadIds :
          thr'[t].st = "done"
          => /\ thr'[t].emitted = SumSeq(thr'[t].cycles)
             /\ thr'[t].writes = 2 * Len(thr'[t].pins) * thr'[t].emitted]_vars

\* a rotate() was refused in the middle of the motor's background pass
C5_Witness ==
  \E c \in Callers, t \in ThreadIds :
    /\ pc[c] = "ret"
    /\ call[c].op = "rotate"
    /\ call[c].val = "RuntimeError_running"
    /\ thr[t].m = call[c].m
    /\ thr[t].st = "run"
    /\ thr[t].emitted >= 1

\* the least delay computed for the request of pass p is below the floor
Infeasible(p) ==
  LET cycles == Compile(p.steps, p.T, p.fn).cycles
  IN \E i \in 1..Len(cycles) :
       cycles[i] > 0 /\ DelayBelowFloor(p.T, Len(cycles), cycles[i])

\* C6: no background thread is ever started for a request whose computed
\* step delay is below the floor
C6_FailsBeforeDispatch ==
  \A t \in ThreadIds : thr[t].st # "free" => ~Infeasible(thr[t])

\* C7: a pass whose least computed delay is below the floor never gets
\* into the loops and writes no channel, uniform or profiled, inline or in
\* the background
C7_InfeasibleWritesNothing ==
  \A p \in Passes :
    (p.st # "free" /\ Infeasible(p))
    => (p.writes = 0 /\ p.emitted = 0 /\ p.st \in {"start", "err"})

\* an infeasible uniform pass in the background and an infeasible profiled
\* pass inline have both been stopped by the check
C7_Witness ==
  \E t \in ThreadIds, c \in Callers :
    /\ thr[t].st = "err" /\ thr[t].err = "ValueError"
    /\ thr[t].fn.f = "none" /\ Infeasible(thr[t])
    /\ inl[c].st = "err" /\ inl[c].err = "ValueError"
    /\ inl[c].fn.f # "none" /\ Infeasible(inl[c])

\* the callers inside _delete() of motor m, past its wait
Releasing(m) ==
  {c \in Callers :
     call[c].m = m
     /\ pc[c] \in {"del_gpio", "del_remove", "del_pins", "del_attrs"}}

\* C8: cleanup of a motor does not get past its wait while a background pass
\* of the motor is in progress; a pass in progress has its motor registered
\* and its pins claimed and set up as outputs, so no pass is cut short and
\* none writes a released pin; after line 147 the pins are neither claimed
\* nor outputs, and when cleanup has returned the registry holds exactly the
\* pins of the registered motors, so the released ones can be claimed
C8_TeardownOrdering ==
  /\ \A m \in MotorIds : Releasing(m) # {} => ~BackgroundPass(m)
  /\ \A p \in Passes :
       /\ p.err # "RuntimeError"
       /\ p.st \in {"start", "run"}
          => /\ p.m \in allMotors
             /\ Range(p.pins) \subseteq allPins \cap gpioOut
  /\ \A c \in Callers :
       pc[c] = "del_attrs"
       => /\ call[c].m \notin allMotors
          /\ Range(motor[call[c].m].pins) \cap (allPins \cup gpioOut) = {}
  /\ \A c \in Callers :
       (pc[c] = "ret" /\ call[c].op = "cleanup" /\ call[c].val = "ok")
       => allPins = UNION {Claimed(m) : m \in allMotors}

\* cleanup is waiting for a background pass that is in the middle of its
\* pulses, the motor's pins still claimed
C8_Witness ==
  \E c \in Callers, t \in ThreadIds :
    /\ pc[c] = "del_join"
    /\ call[c].h = t
    /\ thr[t].m = call[c].m
    /\ thr[t].st = "run"
    /\ thr[t].emitted >= 1
    /\ Range(thr[t].pins) \subseteq allPins

\* cleanup of motor m has completed
TornDown(m) ==
  motor[m].ref /\ m \notin allMotors /\ Releasing(m) = {}

\* C9: a motor whose cleanup has completed stays so, and rotate, finish,
\* isRunning, isStopped and cleanup on it raise, write no pin and leave
\* allMotors, allPins and everything else as they were
C9_TornDownIsTerminal ==
  [][/\ \A m \in MotorIds : TornDown(m) => TornDown(m)'
     /\ \A c \in Callers :
          LET m == call'[c].m
          IN (pc[c] # "ret" /\ pc'[c] = "ret" /\ m # 0 /\ TornDown(m)
              /\ call'[c].op \in {"rotate", "finish", "isRunning",
                                  "isStopped", "cleanup"})
             => /\ call'[c].val = "AttributeError"
                /\ allMotors' = allMotors
                /\ allPins' = allPins
                /\ motor' = motor
                /\ thr' = thr
                /\ gpioOut' = gpioOut
                /\ gpioHigh' = gpioHigh]_vars

\* a rotate() on a torn-down motor has raised
C9_Witness ==
  \E c \in Callers :
    /\ pc[c] = "ret"
    /\ call[c].op = "rotate"
    /\ TornDown(call[c].m)
    /\ call[c].val = "AttributeError"

\* a pass of motor m is in progress, in the background or inline
PassInProgress(m) ==
  \/ BackgroundPass(m)
  \/ \E c \in Callers : inl[c].m = m /\ inl[c].st \in {"start", "run"}

\* C10: while a pass of a motor is in progress, in the background or inline
\* on some caller's thread, isRunning() answers True, isStopped() answers
\* False and a rotate() by any thread is refused as already running
C10_RunStateReflectsEveryPass ==
  [][\A d \in Callers :
       (pc[d] = "idle" /\ pc'[d] # "idle" /\ PassInProgress(call'[d].m))
       => /\ call'[d].op = "isRunning" => call'[d].val = "True"
          /\ call'[d].op = "isStopped" => call'[d].val = "False"
          /\ call'[d].op = "rotate"
             => (pc'[d] = "ret" /\ call'[d].val = "RuntimeError_running")]_vars

\* C11: whatever the interleaving of the background rotate() calls made on a
\* motor by several caller threads, no two background threads are inside a
\* pass of the same motor at once
C11_OnePassPerMotor ==
  \A t1, t2 \in ThreadIds :
    (t1 # t2 /\ thr[t1].st \in {"start", "run"}
     /\ thr[t2].st \in {"start", "run"})
    => thr[t1].m # thr[t2].m

(* ------------------- rotations of one motor, inline -------------------- *)

\* the arguments of the velocity functions tried: 0..MaxArg
MaxArg == 4

\* fullRotation values, angles (whose quotient by 360 is exact in binary) and
\* times for revolution (10 ms, 50 ms and 20 s) of the rotations tried
CompileRotations == {4, 7, 12}

CompileAngles == {-180, 0, 45, 180, 360}

CompileDurations == {1000, 5000, 2000000}

\* None, or lambda x: x, lambda x: 0 and lambda x: 1 over every range
CompileFunctions ==
  {NoFunction}
  \cup {[f |-> f, start |-> a, end |-> b] :
          f \in {"id", "zero", "one"}, a \in 0..MaxArg, b \in 0..MaxArg}

\* the two rotations of the test, on a motor of the default fullRotation
TestRequests ==
  { [angle |-> 180, fr |-> 512, T |-> 2000000,
     fn |-> [f |-> "id", start |-> 0, end |-> 100]],
    [angle |-> -180, fr |-> 512, T |-> 1000000, fn |-> NoFunction] }

Requests ==
  [angle : CompileAngles, fr : CompileRotations, T : CompileDurations,
   fn : CompileFunctions]
  \cup TestRequests

\* a motor constructed on pins 1-4 has been asked to rotate with nofork=True
\* and has passed the check of line 121
InitCompile ==
  \E r \in Requests :
    /\ allMotors = {1}
    /\ allPins = {1, 2, 3, 4}
    /\ motor = [m \in MotorIds |->
                  IF m = 1
                  THEN [NoMotor EXCEPT !.alloc = TRUE, !.ref = TRUE,
                                       !.attrs = TRUE, !.hasThread = TRUE,
                                       !.pins = <<1, 2, 3, 4>>,
                                       !.fullRotation = r.fr]
                  ELSE NoMotor]
    /\ thr = [t \in ThreadIds |-> NoPass]
    /\ inl = [c \in Callers |-> NoPass]
    /\ pc = [c \in Callers |-> IF c = 1 THEN "rot_go" ELSE "idle"]
    /\ call = [c \in Callers |->
                 IF c = 1
                 THEN [NoCall EXCEPT !.op = "rotate", !.m = 1,
                                     !.angle = r.angle, !.T = r.T,
                                     !.fn = r.fn, !.nofork = TRUE]
                 ELSE NoCall]
    /\ gpioMode = "BCM"
    /\ gpioOut = {1, 2, 3, 4}
    /\ gpioHigh = {}

NextCompile ==
  \/ RotateGo(1)
  \/ InlineCompile(1)
  \/ InlinePulse(1)
  \/ Ack(1)

SpecCompile == InitCompile /\ [][NextCompile]_vars

\* the samples of a velocity function are not negative and not all zero
PositiveProfile(fn) ==
  /\ fn.f # "none"
  /\ \A i \in 1..Windows(fn) : Values2(fn)[i] >= 0
  /\ Windows(fn) > 0
  /\ SumSeq(Values2(fn)) > 0

\* C12: for a velocity function with non-negative samples of positive sum and
\* a step count above 0, the pulse counts compiled for the windows sum to
\* exactly the step count, and a pass that ends has emitted that many cycles
C12_RoundingDistribution ==
  \A c \in Callers :
    LET p == inl[c]
    IN (p.st \in {"run", "done", "err"} /\ p.steps > 0
        /\ PositiveProfile(p.fn))
       => /\ SumSeq(p.cycles) = p.steps
          /\ p.st = "done" => p.emitted = p.steps

\* the first rotation of the test has ended: 256 cycles over 100 windows
C12_Witness ==
  \E c \in Callers :
    /\ inl[c].st = "done"
    /\ inl[c].fn = [f |-> "id", start |-> 0, end |-> 100]
    /\ inl[c].steps = 256
    /\ SumSeq(inl[c].cycles) = 256
    /\ inl[c].emitted = 256

\* C13: a rotation without velocity function is stopped by the checks only
\* when its step count floor(|angle| / 360 * fullRotation) is 0 or its delay
\* is below the floor; otherwise its pass runs the pins in turn, each set
\* high and then low, with at most one of them high at any moment, and ends
\* after exactly that many full cycles with every pin low
C13_UniformRotation ==
  \A c \in Callers :
    LET p == inl[c]
        pins == Range(p.pins)
    IN (p.st # "free" /\ p.fn.f = "none")
       => /\ p.steps
               = (Abs(call[c].angle) * motor[p.m].fullRotation) \div 360
          /\ p.st = "err"
             => (p.steps = 0 \/ p.T < 195 * p.steps * 4)
          /\ p.st = "run"
             => /\ p.writes = 2 * (4 * p.emitted + (p.k - 1))
                                 + (IF p.high THEN 1 ELSE 0)
                /\ gpioHigh \cap pins
                     = (IF p.high THEN {p.pins[p.k]} ELSE {})
                /\ p.emitted < p.steps
          /\ p.st = "done"
             => /\ p.emitted = p.steps
                /\ p.writes = 2 * 4 * p.steps
                /\ gpioHigh \cap pins = {}

\* half a turn of a motor of fullRotation 512 has ended after 256 cycles
C13_Witness ==
  \E c \in Callers :
    /\ inl[c].st = "done"
    /\ inl[c].fn.f = "none"
    /\ Abs(call[c].angle) = 180
    /\ motor[inl[c].m].fullRotation = 512
    /\ inl[c].emitted = 256
    /\ inl[c].writes = 2048

\* C14: a pass started with a negative angle runs the pins in the reverse of
\* the order given to the constructor, one started with any other angle in
\* that order, and the step count and the compiled pulse counts are those of
\* the opposite angle
C14_Direction ==
  \A c \in Callers :
    LET p == inl[c]
        a == call[c].angle
        own == motor[p.m].pins
        opposite == StepsOf(-a, motor[p.m].fullRotation)
    IN p.st # "free"
       => /\ Len(p.pins) = Len(own)
          /\ \A i \in 1..Len(own) :
               p.pins[i] = (IF a < 0 THEN own[Len(own) + 1 - i] ELSE own[i])
          /\ p.steps = opposite
          /\ p.st # "start" => p.cycles = Compile(opposite, p.T, p.fn).cycles
          /\ (p.st = "run" /\ p.high) => p.pins[p.k] \in gpioHigh

\* a pass started with angle -180 has set the constructor's last pin high
\* first
C14_Witness ==
  \E c \in Callers :
    /\ call[c].angle = -180
    /\ inl[c].st = "run"
    /\ inl[c].emitted = 0
    /\ inl[c].k = 1
    /\ gpioHigh = {motor[inl[c].m].pins[4]}

\* C15: no rotation that rotate() has started in the background aborts, and
\* finish() has returned normally only when no background pass of its motor
\* is in progress
C15_CompletionAndFinish ==
  /\ \A t \in ThreadIds : thr[t].st # "err"
  /\ \A c \in Callers :
       (pc[c] = "ret" /\ call[c].op = "finish" /\ call[c].val = "ok")
       => ~BackgroundPass(call[c].m)

\* C16: when the constructor reaches its GPIO.setup with no numbering mode
\* set and pins the board has, it returns with a warning, the mode BCM, the
\* pins set up as outputs and the motor registered and usable; when a mode
\* is set, the constructor leaves it as it is and gives no warning
C16_ModeFallback ==
  [][\A c \in Callers :
       (pc[c] = "init_setup" /\ pc'[c] = "ret")
       => LET pins == Range(call[c].pins)
              m == call[c].m
          IN /\ (gpioMode = "unset" /\ pins \subseteq ValidChannels)
                => /\ call'[c].val = "ok_warned"
                   /\ gpioMode' = "BCM"
                   /\ pins \subseteq gpioOut'
                   /\ m \in allMotors'
                   /\ pins \subseteq allPins'
                   /\ motor'[m].ref /\ motor'[m].attrs
             /\ gpioMode # "unset"
                => (gpioMode' = gpioMode /\ call'[c].val # "ok_warned")]_vars

\* a motor constructed with no mode set is live, with a warning given
C16_Witness ==
  \E c \in Callers :
    /\ pc[c] = "ret"
    /\ call[c].op = "init"
    /\ call[c].val = "ok_warned"
    /\ gpioMode = "BCM"
    /\ call[c].m \in allMotors
    /\ Range(call[c].pins) \subseteq gpioOut

\* C17: in a compiled velocity profile the remainder carried after each
\* window, the ideal cumulative pulse count less the pulses given so far, is
\* at least 0 and below 1 (so the pulses given through a window never exceed
\* the ideal count), and each window gets floor(v_i / unitValue) pulses or
\* one more
C17_ExtraPulseRule ==
  \A c \in Callers :
    LET p == inl[c]
        values == Values2(p.fn)
        V == SumSeq(values)
    IN (p.st \in {"run", "done", "err"} /\ p.steps > 0
        /\ PositiveProfile(p.fn))
       => \A i \in 1..Len(p.cycles) :
            LET carried == p.steps * SumSeq(SubSeq(values, 1, i))
                             - V * SumSeq(SubSeq(p.cycles, 1, i))
                floor == (values[i] * p.steps) \div V
            IN /\ 0 <= carried
               /\ carried < V
               /\ p.cycles[i] \in {floor, floor + 1}

\* C18: a pass that writes a pin is in a window with k > 0 pulses whose delay
\* timeForRevolution / windows / k / 4 is at least minimalStepDelay, as is
\* the delay of every other such window of the pass, and a pass in a window
\* with 0 pulses moves on without writing a pin
C18_DelayFloor ==
  [][\A c \in Callers :
       LET p == inl[c]
           q == inl'[c]
           N == Len(p.cycles)
       IN p.st = "run"
          => /\ \A i \in 1..N :
                  p.cycles[i] > 0 => p.T >= 195 * N * p.cycles[i] * 4
             /\ q.writes > p.writes => p.cycles[p.seg] > 0
             /\ p.cycles[p.seg] = 0
                => (q.writes = p.writes /\ gpioHigh' = gpioHigh
                    /\ q.emitted = p.emitted)]_vars

\* a pass of 50 ms over two windows, the first without pulses, is through
\* the first of the two cycles of its second window
C18_Witness ==
  \E c \in Callers :
    /\ inl[c].st = "run"
    /\ inl[c].T = 5000
    /\ inl[c].cycles = <<0, 2>>
    /\ inl[c].emitted = 1

\* C19: when the constructor's GPIO.setup has failed, the motor is not in
\* allMotors and none of its pins is in allPins
C19_NoPartialState ==
  \A c \in Callers :
    (pc[c] = "ret" /\ call[c].op = "init"
     /\ call[c].val = "ValueError_channel")
    => /\ call[c].m \notin allMotors
       /\ Range(call[c].pins) \cap allPins = {}

\* C20: a pass whose step count is 0 (so every inline pass whose
\* |angle| / 360 * fullRotation is below 1) never gets into the loops and
\* writes no pin; it ends with ZeroDivisionError, not with the error of the
\* delay check, which rotate(nofork=True) hands to its caller; the motor
\* keeps its attributes and its registration and no thread of it is left
\* running by the inline call
C20_ZeroStepRequest ==
  /\ \A p \in Passes :
       (p.st # "free" /\ p.steps = 0)
       => /\ p.st \in {"start", "err"}
          /\ p.st = "err" => p.err = "ZeroDivisionError"
          /\ p.writes = 0 /\ p.emitted = 0
          /\ motor[p.m].attrs /\ motor[p.m].hasThread
          /\ p.m \in allMotors
  /\ \A c \in Callers :
       LET p == inl[c]
       IN p.st # "free"
          => /\ Abs(call[c].angle) * motor[p.m].fullRotation < 360
                => p.steps = 0
             /\ (p.steps = 0 /\ pc[c] = "ret")
                => (call[c].val = "ZeroDivisionError" /\ ~IsRunning(p.m))

\* a rotation by angle 0 has raised ZeroDivisionError to its caller, and one
\* in the background has ended in the same way
C20_Witness ==
  \E c \in Callers, t \in ThreadIds :
    /\ pc[c] = "ret"
    /\ call[c].op = "rotate"
    /\ call[c].angle = 0
    /\ call[c].val = "ZeroDivisionError"
    /\ inl[c].writes = 0
    /\ thr[t].steps = 0
    /\ thr[t].st = "err"
    /\ thr[t].err = "ZeroDivisionError"

=============================================================================
